---- MODULE Spec2Model ----
(***************************************************************************)
(* Interview session lifecycle and turn pipeline of the empathy-interview  *)
(* frontend: InterviewScreen.jsx (session helpers, push-to-talk recording, *)
(* processAudio pipeline, playback helpers) together with the part of      *)
(* App.jsx that owns the turn sequence, the error message and the view.    *)
(*                                                                         *)
(* Every await on the network, on getUserMedia, on the recorder's stop     *)
(* event and on audio.play() is a yield point: the code up to the next     *)
(* await is one atomic action (single-threaded event loop).                *)
(***************************************************************************)
EXTENDS Integers, Sequences, FiniteSets, TLC

\* ---------------------------------------------------------------- bounds
\* number of start-recording intents the user issues in one mount
MaxRec == 2
\* number of End-Interview clicks the user issues in one mount
MaxEndClicks == 1
\* End-Interview and Back are explored in mounts with at most this many
\* start-recording intents
MaxRecTeardown == 1
\* number of Play clicks on transcript bubbles in one mount
MaxPlayClicks == 1

\* ------------------------------------------------------------ value space
NoId == 0                \* null session id
NoUrl == <<>>            \* null / '' audio url
NoKey == <<>>            \* '' playing key
NoTurn == 0              \* no turn id yet
NoNumber == 0            \* turn_number absent in the reply

RecIds == 1..MaxRec
EndIds == 1..(MaxEndClicks + 1)     \* clicks plus the teardown call
PlayIds == 1..MaxPlayClicks

\* texts are sequences of characters; " " is whitespace
Absent == [present |-> FALSE, val |-> <<>>]
Txt(s) == [present |-> TRUE, val |-> s]

\* transcripts the speech-to-text service may return
Transcripts == { Absent, Txt(<<" ">>), Txt(<<" ", "a", " ">>) }
\* replies the persona service may return
Replies == { Absent, Txt(<<" ">>), Txt(<<"c", " ">>) }
\* turn_number values the persona service may return
TurnNumbers == { NoNumber, 5 }

\* error messages
ErrNone == ""
ErrInit == "Failed to initialize interview session"
ErrMic == "Failed to access microphone"
ErrNoSession == "Could not start interview session."
ErrNoSpeech == "No speech detected. Please try again."
ErrProcess == "Failed to process audio"
ErrNoData == "No interview data to analyze"
ErrFeedback == "Failed to generate feedback report"

\* feedbackReport: null, or the report a scoring call returned
NoReport == "null"
ScoringReport == "report"

\* ------------------------------------------------------------ pure helpers
\* (transcript || '')
OrEmpty(x) == IF x.present THEN x.val ELSE <<>>

RECURSIVE TrimLeft(_)
TrimLeft(s) == IF s = <<>> THEN <<>>
               ELSE IF Head(s) = " " THEN TrimLeft(Tail(s)) ELSE s

RECURSIVE TrimRight(_)
TrimRight(s) == IF s = <<>> THEN <<>>
                ELSE IF s[Len(s)] = " " THEN TrimRight(SubSeq(s, 1, Len(s) - 1)) ELSE s

\* String.prototype.trim
Trim(s) == TrimRight(TrimLeft(s))

\* makeTurnId: a fresh id per pipeline run (time + random); the run's index
MakeTurnId(i) == i

\* URL.createObjectURL of the recorded blob of recorder i
UserUrl(i) == <<"blob-u", i>>
\* URL.createObjectURL of the decoded persona audio of pipeline i
PersonaBlobUrl(i) == <<"blob-p", i>>
\* audio_url returned by the synthesis service (the service may hand out the
\* same address again, so it does not depend on the pipeline)
RemoteUrl(i) == <<"http", 0>>

\* `p-${turnId}`
PersonaKey(t) == <<"p", t>>

\* `u-${turnId}`
StudentKey(t) == <<"u", t>>

\* the messages of the transcript that carry a Play button (m.audioUrl is
\* truthy): the student bubble of every turn, the persona bubble of a turn
\* with a reply text
Bubbles(ts) ==
    { b \in { [url |-> ts[k].student_audio_url, key |-> StudentKey(ts[k].id)] :
                k \in 1..Len(ts) }
           \cup { [url |-> ts[k].persona_audio_url, key |-> PersonaKey(ts[k].id)] :
                    k \in { j \in 1..Len(ts) : ts[j].persona_response # <<>> } } :
        b.url # NoUrl }

\* next.findIndex((t) => t.id === turnId); 0 when absent
FindIndex(ts, tid) ==
    IF \E k \in 1..Len(ts) : ts[k].id = tid
    THEN CHOOSE k \in 1..Len(ts) : ts[k].id = tid /\ \A j \in 1..(k - 1) : ts[j].id # tid
    ELSE 0

BaseTurnEcho(tid, text, userUrl) ==
    [ id |-> tid, student_question |-> text, student_audio_url |-> userUrl,
      persona_response |-> text, persona_audio_url |-> NoUrl, turn_number |-> NoNumber ]

\* baseTurn of processAudio
BaseTurn(tid, text, userUrl) ==
    [ id |-> tid, student_question |-> text, student_audio_url |-> userUrl,
      persona_response |-> <<>>, persona_audio_url |-> NoUrl, turn_number |-> NoNumber ]

AppendTurnFront(ts, t) == <<t>> \o ts

\* setInterviewTurns((prev) => [...prev, baseTurn])
AppendTurn(ts, t) == Append(ts, t)

PatchLastTurn(ts, tid, reply, url, tn) ==
    LET idx == Len(ts) IN
    IF idx = 0 THEN ts
    ELSE [ts EXCEPT ![idx] = [@ EXCEPT !.persona_response = reply,
                                       !.persona_audio_url = url,
                                       !.turn_number = IF tn # NoNumber THEN tn ELSE idx]]

PatchTurnNumberByPosition(ts, tid, reply, url, tn) ==
    LET idx == FindIndex(ts, tid) IN
    IF idx = 0 THEN ts
    ELSE [ts EXCEPT ![idx] = [@ EXCEPT !.persona_response = reply,
                                       !.persona_audio_url = url,
                                       !.turn_number = idx]]

\* setInterviewTurns patch of stage 6
PatchTurn(ts, tid, reply, url, tn) ==
    LET idx == FindIndex(ts, tid) IN
    IF idx = 0 THEN ts
    ELSE [ts EXCEPT ![idx] = [@ EXCEPT !.persona_response = reply,
                                       !.persona_audio_url = url,
                                       !.turn_number = IF tn # NoNumber THEN tn ELSE idx]]

\* ------------------------------------------------------------------ state
VARIABLES
    \* TrainingApp (App.jsx)
    view,            \* currentView
    turns,           \* interviewTurns
    error,           \* error
    errorTimer,      \* the message the pending 5 second timer was armed for ("" = no timer)
    loading,         \* loading
    fbPending,       \* endInterview calls awaiting generateFeedback
    feedbackReport,  \* feedbackReport
    renderedTurns,   \* interviewTurns as captured by the last render
    \* InterviewScreen state
    mounted,         \* the screen instance is mounted
    processing, personaTyping, sessionId, sessionActive, isRecording, playingKey,
    \* InterviewScreen refs
    isRecordingRef, processingRef, sessionActiveRef, sessionIdRef, spaceIsDownRef,
    mediaRecorderRef,    \* index of the recorder held by the ref, 0 = null
    userBlobUrlsRef,     \* sequence of created object URLs
    currentAudioRef,     \* the Audio element held by the ref
    currentAudioUrlRef,
    detached,            \* Audio elements dropped from the ref while still sounding
    \* asynchronous activities
    initPc,          \* initializeSession of the mount effect: "pending" | "done"
    rec,             \* per start-recording intent: recorder, stream and pipeline
    nRec,            \* start-recording intents issued so far
    ends,            \* endSessionCleanup invocations
    nEnd,            \* endSessionCleanup invocations that reached the remote call
    endClicks,       \* End-Interview clicks so far
    laterScreen,     \* the screen of an interview started after Back (its mount call)
    plays,           \* playAudio calls made from a transcript bubble
    nPlay,           \* transcript Play clicks so far
    \* service side and bookkeeping
    nIssued,         \* session ids returned by start-session: 1..nIssued
    startCalls,      \* start-session invocations
    endCalls,        \* endCalls[id]: end-session invocations for id
    revoked,         \* object URLs revoked by the teardown
    created          \* turn ids in the order processAudio created them

appVars == <<view, turns, error, loading, fbPending, renderedTurns>>
stateVars == <<processing, personaTyping, sessionId, sessionActive, isRecording, playingKey>>
mirrorVars == <<isRecordingRef, processingRef, sessionActiveRef>>
audioVars == <<currentAudioRef, currentAudioUrlRef>>
svcVars == <<nIssued, startCalls, endCalls>>
vars == <<view, turns, error, errorTimer, loading, fbPending, renderedTurns, mounted,
          processing, personaTyping, sessionId, sessionActive, isRecording, playingKey,
          isRecordingRef, processingRef, sessionActiveRef, sessionIdRef, spaceIsDownRef,
          mediaRecorderRef, userBlobUrlsRef, currentAudioRef, currentAudioUrlRef,
          detached, initPc, rec, nRec, ends, nEnd, endClicks, plays, nPlay,
          nIssued, startCalls, endCalls, revoked, created, laterScreen, feedbackReport>>

\* ids the start-session operation can ever return in one mount
SessIds == 1..(MaxRec + 1)

NoAudio == [el |-> 0, url |-> NoUrl, st |-> "none", pos |-> 0]

NoRec == [ st |-> "none", stream |-> "none", pc |-> "idle", id |-> NoId, status |-> "none",
           text |-> <<>>, turnId |-> NoTurn, reply |-> <<>>, tn |-> NoNumber,
           url |-> NoUrl, el |-> 0, outcome |-> "none" ]

NoEnd == [ st |-> "none", id |-> NoId, src |-> "none" ]

\* a playAudio call made from a bubble: the element whose play() it awaits,
\* its url and bubbleKey arguments, and the branch it took ("play" | "replay")
NoPlay == [ st |-> "none", el |-> 0, url |-> NoUrl, key |-> NoKey, kind |-> "none" ]

\* the Audio element created by the n-th Play click (pipeline i creates
\* element i)
ClickEl(n) == MaxRec + n

\* State after the first render and the mount effect: initializeSession has
\* issued its start-session call.
Init ==
    /\ view = "interview" /\ turns = <<>> /\ error = ErrNone /\ errorTimer = ErrNone
    /\ loading = FALSE
    /\ fbPending = 0 /\ renderedTurns = <<>>
    /\ mounted = TRUE
    /\ processing = FALSE /\ personaTyping = FALSE /\ sessionId = NoId
    /\ sessionActive = FALSE /\ isRecording = FALSE /\ playingKey = NoKey
    /\ isRecordingRef = FALSE /\ processingRef = FALSE /\ sessionActiveRef = FALSE
    /\ sessionIdRef = NoId /\ spaceIsDownRef = FALSE
    /\ mediaRecorderRef = 0 /\ userBlobUrlsRef = <<>>
    /\ currentAudioRef = NoAudio /\ currentAudioUrlRef = NoUrl /\ detached = {}
    /\ initPc = "pending"
    /\ rec = [i \in RecIds |-> NoRec] /\ nRec = 0
    /\ ends = [k \in EndIds |-> NoEnd] /\ nEnd = 0 /\ endClicks = 0
    /\ plays = [n \in PlayIds |-> NoPlay] /\ nPlay = 0
    /\ laterScreen = "none" /\ feedbackReport = NoReport
    /\ nIssued = 0 /\ startCalls = 1 /\ endCalls = [s \in SessIds |-> 0]
    /\ revoked = {} /\ created = <<>>

\* a state setter of the screen: ignored once the screen is unmounted
Set(cur, new) == IF mounted THEN new ELSE cur

PausedNot(a) == a

\* stopCurrentAudio: the element after pause() and currentTime = 0
Paused(a) == IF a.st = "none" THEN a ELSE [a EXCEPT !.st = "idle", !.pos = 0]

\* playAudio: the requested url is the one of the element held by the refs
LoadedIs(url) == currentAudioRef.st # "none" /\ currentAudioUrlRef = url

RestartedKeepsPosition(a) == [a EXCEPT !.st = IF @ = "playing" THEN @ ELSE "pending"]

\* playAudio on the loaded url: currentTime = 0, then play() on the same element
Restarted(a) == [a EXCEPT !.st = IF @ = "playing" THEN @ ELSE "pending", !.pos = 0]

\* playAudio on another url: the element the ref held is dropped after
\* stopCurrentAudio; it joins the detached elements if it still sounds
Dropped(a) == IF Paused(a).st \in {"pending", "playing"} THEN {a.el} ELSE {}

\* ---------------------------------------------------------------- render
\* A render commits the pending state: the mirror effects copy the state into
\* the refs and the closures see the current turn sequence.  (The fourth
\* mirror, sessionIdRef.current = sessionId, writes the value the ref already
\* holds: every setSessionId is paired with the same write to the ref.)
SyncMirrors ==
    /\ isRecordingRef' = isRecording'
    /\ processingRef' = processing'
    /\ sessionActiveRef' = sessionActive'
    /\ renderedTurns' = turns'

\* endSessionCleanup up to its await: the remote end call for the held id
EndCallFor(id, src) ==
    /\ ends' = [ends EXCEPT ![nEnd + 1] = [st |-> "pending", id |-> id, src |-> src]]
    /\ nEnd' = nEnd + 1
    /\ endCalls' = [endCalls EXCEPT ![id] = @ + 1]

\* cleanup of the lifecycle effect, run when the screen is torn down
Teardown ==
    /\ mounted' = FALSE
    /\ IF sessionIdRef # NoId
       THEN EndCallFor(sessionIdRef, "unmount")
       ELSE UNCHANGED <<ends, nEnd, endCalls>>
    /\ revoked' = revoked \cup { userBlobUrlsRef[k] : k \in 1..Len(userBlobUrlsRef) }
    /\ currentAudioRef' = Paused(currentAudioRef)
    /\ currentAudioUrlRef' = NoUrl
    /\ playingKey' = NoKey
    /\ spaceIsDownRef' = spaceIsDownRef
    /\ UNCHANGED <<mirrorVars, renderedTurns>>

Dirty ==
    \/ renderedTurns # turns
    \/ mounted /\ ( \/ view # "interview"
                    \/ isRecordingRef # isRecording
                    \/ processingRef # processing
                    \/ sessionActiveRef # sessionActive )

\* a render scheduled by state updates made outside a user event
Render ==
    /\ UNCHANGED <<plays, nPlay, detached, errorTimer, laterScreen, feedbackReport>>
    /\ Dirty
    /\ IF mounted /\ view # "interview"
       THEN /\ Teardown
            /\ UNCHANGED <<view, turns, error, loading, fbPending,
                           processing, personaTyping, sessionId, sessionActive, isRecording,
                           sessionIdRef, mediaRecorderRef, userBlobUrlsRef,
                           initPc, rec, nRec, endClicks, nIssued, startCalls, created>>
       ELSE /\ UNCHANGED <<view, turns, error, loading, fbPending, mounted, stateVars,
                           sessionIdRef, spaceIsDownRef, mediaRecorderRef, userBlobUrlsRef,
                           audioVars, initPc, rec, nRec, ends, nEnd, endClicks,
                           svcVars, revoked, created>>
            /\ IF mounted THEN SyncMirrors
               ELSE renderedTurns' = turns /\ UNCHANGED mirrorVars

\* ------------------------------------------------------------ recording
\* startRecording up to its await on getUserMedia
DoStart ==
    /\ nRec < (IF endClicks = 0 THEN MaxRec ELSE MaxRecTeardown)
    /\ rec' = [rec EXCEPT ![nRec + 1].st = "acquiring"]
    /\ nRec' = nRec + 1
    /\ UNCHANGED isRecording

\* stopRecording
DoStop ==
    /\ rec' = IF mediaRecorderRef # 0 /\ rec[mediaRecorderRef].st = "recording"
              THEN [rec EXCEPT ![mediaRecorderRef].st = "stopping"]
              ELSE rec
    /\ isRecording' = FALSE
    /\ UNCHANGED nRec

\* isRecording ? stopRecording() : startRecording(), as seen by the handlers
Toggle == IF isRecordingRef THEN DoStop ELSE DoStart

\* The render of a user event commits the updates its handler made, here
\* setIsRecording(false) of stopRecording (startRecording makes none before
\* its await); the updates queued by asynchronous continuations wait for
\* their own render.
HandlerRender ==
    /\ isRecordingRef' = FALSE
    /\ UNCHANGED <<processingRef, sessionActiveRef, renderedTurns>>

KeyIsHeldNever == FALSE

\* if (spaceIsDownRef.current) return;
KeyIsHeld == spaceIsDownRef

\* window keydown listener
KeyDown ==
    /\ UNCHANGED <<plays, nPlay, detached, errorTimer, laterScreen, feedbackReport>>
    /\ mounted
    /\ \E isSpace \in BOOLEAN, editable \in BOOLEAN :
         IF ~isSpace \/ editable \/ KeyIsHeld
         THEN UNCHANGED vars
         ELSE /\ spaceIsDownRef' = TRUE
              /\ IF processingRef \/ ~sessionActiveRef
                 THEN UNCHANGED <<rec, nRec, isRecording, mirrorVars, renderedTurns>>
                 ELSE Toggle /\ HandlerRender
              /\ UNCHANGED <<view, turns, error, loading, fbPending, mounted,
                             processing, personaTyping, sessionId, sessionActive, playingKey,
                             sessionIdRef, mediaRecorderRef, userBlobUrlsRef, audioVars,
                             initPc, ends, nEnd, endClicks, svcVars, revoked, created>>

\* window keyup listener
KeyUp ==
    /\ UNCHANGED <<plays, nPlay, detached, errorTimer, laterScreen, feedbackReport>>
    /\ mounted
    /\ \E isSpace \in BOOLEAN :
         /\ spaceIsDownRef' = IF isSpace THEN FALSE ELSE spaceIsDownRef
         /\ UNCHANGED <<appVars, mounted, stateVars, mirrorVars, sessionIdRef,
                        mediaRecorderRef, userBlobUrlsRef, audioVars, initPc, rec, nRec,
                        ends, nEnd, endClicks, svcVars, revoked, created>>

\* click on the ComposerBar button (disabled unless canRecord; the loading
\* overlay covers the page while loading)
ClickToggle ==
    /\ UNCHANGED <<plays, nPlay, detached, errorTimer, laterScreen, feedbackReport>>
    /\ mounted /\ ~loading
    /\ sessionActiveRef /\ ~processingRef
    /\ Toggle
    /\ UNCHANGED <<view, turns, error, loading, fbPending, mounted,
                   processing, personaTyping, sessionId, sessionActive, playingKey,
                   sessionIdRef, spaceIsDownRef, mediaRecorderRef, userBlobUrlsRef, audioVars,
                   initPc, ends, nEnd, endClicks, svcVars, revoked, created>>
    /\ HandlerRender

StartRecordingCatchRecording(i) ==
    /\ rec' = [rec EXCEPT ![i].st = "failed"]
    /\ error' = ErrMic
    /\ isRecording' = Set(isRecording, TRUE)
    /\ UNCHANGED <<mediaRecorderRef, audioVars, playingKey>>

\* the catch block of startRecording: getUserMedia rejected
StartRecordingCatch(i) ==
    /\ rec' = [rec EXCEPT ![i].st = "failed"]
    /\ error' = ErrMic
    /\ UNCHANGED <<mediaRecorderRef, isRecording, audioVars, playingKey>>

\* getUserMedia settles for intent i: the rest of startRecording
GetUserMediaResp(i) ==
    /\ UNCHANGED <<plays, nPlay, detached, errorTimer, laterScreen, feedbackReport>>
    /\ rec[i].st = "acquiring"
    /\ \E ok \in BOOLEAN :
         IF ok
         THEN /\ rec' = [rec EXCEPT ![i].st = "recording", ![i].stream = "held"]
              /\ mediaRecorderRef' = i
              /\ isRecording' = Set(isRecording, TRUE)
              /\ currentAudioRef' = Paused(currentAudioRef)
              /\ playingKey' = Set(playingKey, NoKey)
              /\ currentAudioUrlRef' = NoUrl
              /\ UNCHANGED error
         ELSE StartRecordingCatch(i)
    /\ UNCHANGED <<view, turns, loading, fbPending, renderedTurns, mounted,
                   processing, personaTyping, sessionId, sessionActive,
                   mirrorVars, sessionIdRef, spaceIsDownRef, userBlobUrlsRef,
                   initPc, nRec, ends, nEnd, endClicks, svcVars, revoked, created>>

\* --------------------------------------------------------------- session
\* the variables no pipeline or session step touches
PipeFrame == UNCHANGED <<view, loading, fbPending, renderedTurns, mounted, isRecording,
                         mirrorVars, spaceIsDownRef, mediaRecorderRef,
                         initPc, nRec, ends, nEnd, endClicks, endCalls, revoked>>

\* initializeSession after its await, success: the new id is stored
SessionStored(n) ==
    /\ nIssued' = n
    /\ sessionId' = Set(sessionId, n)
    /\ sessionIdRef' = n
    /\ sessionActive' = Set(sessionActive, TRUE)

InitFailedMarksActive ==
    /\ error' = ErrInit
    /\ sessionActive' = Set(sessionActive, TRUE)
    /\ UNCHANGED <<nIssued, sessionId, sessionIdRef>>

\* the catch block of initializeSession
InitFailed ==
    /\ error' = ErrInit
    /\ UNCHANGED <<nIssued, sessionId, sessionIdRef, sessionActive>>

\* start-session call of the mount effect settles
InitResp ==
    /\ UNCHANGED <<plays, nPlay, detached, errorTimer, laterScreen, feedbackReport>>
    /\ initPc = "pending"
    /\ initPc' = "done"
    /\ \E ok \in BOOLEAN :
         IF ok
         THEN SessionStored(nIssued + 1) /\ UNCHANGED error
         ELSE InitFailed
    /\ UNCHANGED <<view, turns, loading, fbPending, renderedTurns, mounted,
                   processing, personaTyping, isRecording, playingKey,
                   mirrorVars, spaceIsDownRef, mediaRecorderRef, userBlobUrlsRef, audioVars,
                   rec, nRec, ends, nEnd, endClicks, startCalls, endCalls, revoked, created>>

\* -------------------------------------------------------------- pipeline
FinishedLeaky(r, outcome) ==
    [NoRec EXCEPT !.st = r.st, !.pc = "done", !.outcome = outcome,
                  !.stream = IF outcome = "committed" THEN "released" ELSE r.stream]

\* the finally block of processAudio, then the rest of onstop: the recorder's
\* stream is released (the locals of the run are gone)
Finished(r, outcome) ==
    [NoRec EXCEPT !.st = r.st, !.pc = "done", !.stream = "released", !.outcome = outcome]

FinallyFlagsTypingOnly ==
    /\ personaTyping' = Set(personaTyping, FALSE)
    /\ UNCHANGED processing

FinallyFlagsProcessingOnly ==
    /\ processing' = Set(processing, FALSE)
    /\ UNCHANGED personaTyping

\* finally { setPersonaTyping(false); setProcessing(false); }
FinallyFlags ==
    /\ personaTyping' = Set(personaTyping, FALSE)
    /\ processing' = Set(processing, FALSE)

\* the recorder's stop event: onstop, processAudio up to the first await of
\* ensureSession
RecorderStop(i) ==
    /\ UNCHANGED <<plays, nPlay, detached, errorTimer, laterScreen, feedbackReport>>
    /\ rec[i].st = "stopping"
    /\ userBlobUrlsRef' = Append(userBlobUrlsRef, UserUrl(i))
    /\ processing' = Set(processing, TRUE)
    /\ IF sessionIdRef = NoId
       THEN /\ rec' = [rec EXCEPT ![i].st = "stopped", ![i].pc = "start"]
            /\ startCalls' = startCalls + 1
       ELSE /\ rec' = [rec EXCEPT ![i].st = "stopped", ![i].pc = "check",
                                  ![i].id = sessionIdRef]
            /\ UNCHANGED startCalls
    /\ PipeFrame
    /\ UNCHANGED <<turns, error, personaTyping, sessionId, sessionActive, playingKey,
                   sessionIdRef, audioVars, nIssued, created>>

\* outcomes of checkSessionStatus: { active: true }, { active: false }, or the
\* call throws
StatusResults == {"active", "inactive", "throw"}

NeedsRestartAlways(res) == TRUE

NeedsRestartOnInactive(res) == res = "inactive"

\* ensureSession: the held session must be replaced (!status.active, or catch)
NeedsRestart(res) == res # "active"

\* ensureSession: the status check settles
StatusResp(i) ==
    /\ UNCHANGED <<plays, nPlay, detached, errorTimer, laterScreen, feedbackReport>>
    /\ rec[i].pc = "check"
    /\ \E res \in StatusResults :
         IF NeedsRestart(res)
         THEN /\ rec' = [rec EXCEPT ![i].pc = "start", ![i].status = res]
              /\ startCalls' = startCalls + 1
         ELSE /\ rec' = [rec EXCEPT ![i].pc = "upload", ![i].status = res]
              /\ UNCHANGED startCalls
    /\ PipeFrame
    /\ UNCHANGED <<turns, error, processing, personaTyping, sessionId, sessionActive,
                   playingKey, sessionIdRef, userBlobUrlsRef, audioVars, nIssued, created>>

\* ensureSession: the start-session call of initializeSession settles
StartResp(i) ==
    /\ UNCHANGED <<plays, nPlay, detached, errorTimer, laterScreen, feedbackReport>>
    /\ rec[i].pc = "start"
    /\ \E ok \in BOOLEAN :
         IF ok
         THEN /\ SessionStored(nIssued + 1)
              /\ rec' = [rec EXCEPT ![i].pc = "upload", ![i].id = nIssued + 1]
              /\ UNCHANGED <<error, processing, personaTyping>>
         ELSE /\ error' = ErrNoSession
              /\ rec' = [rec EXCEPT ![i] = Finished([@ EXCEPT !.id = NoId], "no_session")]
              /\ FinallyFlags
              /\ UNCHANGED <<nIssued, sessionId, sessionIdRef, sessionActive>>
    /\ PipeFrame
    /\ UNCHANGED <<turns, playingKey, userBlobUrlsRef, audioVars, startCalls, created>>

\* stage 1-3: uploadAudio settles
UploadResp(i) ==
    /\ UNCHANGED <<plays, nPlay, detached, errorTimer, laterScreen, feedbackReport>>
    /\ rec[i].pc = "upload"
    /\ \/ \* the call fails
          /\ error' = ErrProcess
          /\ rec' = [rec EXCEPT ![i] = Finished(@, "upload_fail")]
          /\ FinallyFlags
          /\ UNCHANGED <<turns, created>>
       \/ \E t \in Transcripts :
            LET text == Trim(OrEmpty(t)) IN
            IF text = <<>>
            THEN /\ error' = ErrNoSpeech
                 /\ rec' = [rec EXCEPT ![i] = Finished(@, "no_speech")]
                 /\ FinallyFlags
                 /\ UNCHANGED <<turns, created>>
            ELSE /\ turns' = AppendTurn(turns, BaseTurn(MakeTurnId(i), text, UserUrl(i)))
                 /\ created' = Append(created, MakeTurnId(i))
                 /\ personaTyping' = Set(personaTyping, TRUE)
                 /\ rec' = [rec EXCEPT ![i].pc = "reply", ![i].text = text,
                                       ![i].turnId = MakeTurnId(i), ![i].status = "none"]
                 /\ UNCHANGED <<error, processing>>
    /\ PipeFrame
    /\ UNCHANGED <<sessionId, sessionActive, playingKey, sessionIdRef, userBlobUrlsRef,
                   audioVars, nIssued, startCalls>>

\* stage 4: getPersonaReply settles
ReplyResp(i) ==
    /\ UNCHANGED <<plays, nPlay, detached, errorTimer, laterScreen, feedbackReport>>
    /\ rec[i].pc = "reply"
    /\ \/ \* the call fails
          /\ error' = ErrProcess
          /\ rec' = [rec EXCEPT ![i] = Finished(@, "reply_fail")]
          /\ FinallyFlags
          /\ UNCHANGED turns
       \/ \E r \in Replies, tn \in TurnNumbers :
            LET reply == Trim(OrEmpty(r)) IN
            IF reply = <<>>
            THEN \* no synthesis, stage 6, no autoplay
                 /\ turns' = PatchTurn(turns, rec[i].turnId, reply, NoUrl, tn)
                 /\ rec' = [rec EXCEPT ![i] = Finished([@ EXCEPT !.reply = reply, !.tn = tn],
                                                       "committed")]
                 /\ FinallyFlags
                 /\ UNCHANGED error
            ELSE /\ rec' = [rec EXCEPT ![i].pc = "tts", ![i].reply = reply, ![i].tn = tn]
                 /\ UNCHANGED <<turns, error, processing, personaTyping>>
    /\ PipeFrame
    /\ UNCHANGED <<sessionId, sessionActive, playingKey, sessionIdRef, userBlobUrlsRef,
                   audioVars, nIssued, startCalls, created>>

\* results of generateTTS
TTSResults == {"throw", "base64", "url", "none"}

\* personaAudioUrl resolved from the synthesis result
ResolveAudioUrl(res, i) ==
    IF res = "base64" THEN PersonaBlobUrl(i)
    ELSE IF res = "url" THEN RemoteUrl(i)
    ELSE NoUrl

\* stage 5-7: generateTTS settles
TTSResp(i) ==
    /\ UNCHANGED <<plays, nPlay, errorTimer, laterScreen, feedbackReport>>
    /\ rec[i].pc = "tts"
    /\ \E res \in TTSResults :
         IF res = "throw"
         THEN /\ error' = ErrProcess
              /\ rec' = [rec EXCEPT ![i] = Finished(@, "tts_fail")]
              /\ FinallyFlags
              /\ UNCHANGED <<turns, userBlobUrlsRef, audioVars, detached, playingKey>>
         ELSE LET url == ResolveAudioUrl(res, i) IN
              /\ userBlobUrlsRef' = IF res = "base64"
                                    THEN Append(userBlobUrlsRef, url) ELSE userBlobUrlsRef
              /\ turns' = PatchTurn(turns, rec[i].turnId, rec[i].reply, url, rec[i].tn)
              /\ UNCHANGED error
              /\ IF url = NoUrl
                 THEN /\ rec' = [rec EXCEPT ![i] = Finished(@, "committed")]
                      /\ FinallyFlags
                      /\ UNCHANGED <<audioVars, detached, playingKey>>
                 ELSE IF LoadedIs(url)
                 THEN \* playAudio: the loaded resource is restarted
                      /\ currentAudioRef' = Restarted(currentAudioRef)
                      /\ rec' = [rec EXCEPT ![i].pc = "replay", ![i].url = url,
                                            ![i].el = currentAudioRef.el,
                                            ![i].outcome = "committed"]
                      /\ UNCHANGED <<currentAudioUrlRef, detached, playingKey,
                                     processing, personaTyping>>
                 ELSE \* playAudio: stopCurrentAudio, new Audio(url), play()
                      /\ currentAudioRef' = [el |-> i, url |-> url, st |-> "pending", pos |-> 0]
                      /\ detached' = detached \cup Dropped(currentAudioRef)
                      /\ currentAudioUrlRef' = url
                      /\ playingKey' = Set(playingKey, PersonaKey(rec[i].turnId))
                      /\ rec' = [rec EXCEPT ![i].pc = "play", ![i].url = url, ![i].el = i,
                                            ![i].outcome = "committed"]
                      /\ UNCHANGED <<processing, personaTyping>>
    /\ PipeFrame
    /\ UNCHANGED <<sessionId, sessionActive, sessionIdRef, nIssued, startCalls, created>>

\* stage 7: the promise of audio.play() settles; playAudio returns
PlaySettle(i) ==
    /\ UNCHANGED <<plays, nPlay, detached, errorTimer, laterScreen, feedbackReport>>
    /\ rec[i].pc \in {"play", "replay"}
    /\ \E ok \in BOOLEAN :
         LET mine == currentAudioRef.el = rec[i].el IN
         IF ok /\ mine /\ currentAudioRef.st \in {"pending", "playing"}
         THEN /\ currentAudioRef' = [currentAudioRef EXCEPT !.st = "playing"]
              /\ playingKey' = IF rec[i].pc = "replay"
                               THEN Set(playingKey, PersonaKey(rec[i].turnId))
                               ELSE playingKey
         ELSE /\ ~ok
              /\ currentAudioRef' = IF mine /\ currentAudioRef.st = "pending"
                                    THEN [currentAudioRef EXCEPT !.st = "idle"]
                                    ELSE currentAudioRef
              /\ UNCHANGED playingKey
    /\ rec' = [rec EXCEPT ![i] = Finished(@, "committed")]
    /\ FinallyFlags
    /\ PipeFrame
    /\ UNCHANGED <<turns, error, sessionId, sessionActive, sessionIdRef, userBlobUrlsRef,
                   currentAudioUrlRef, nIssued, startCalls, created>>

\* the playing element reaches its end: audio.onended
AudioEnded ==
    /\ UNCHANGED <<plays, nPlay, detached, errorTimer, laterScreen, feedbackReport>>
    /\ currentAudioRef.st = "playing"
    /\ currentAudioRef' = [currentAudioRef EXCEPT !.st = "idle", !.pos = 1]
    /\ playingKey' = Set(playingKey, NoKey)
    /\ currentAudioUrlRef' = NoUrl
    /\ UNCHANGED <<appVars, mounted, processing, personaTyping, sessionId, sessionActive,
                   isRecording, mirrorVars, sessionIdRef, spaceIsDownRef, mediaRecorderRef,
                   userBlobUrlsRef, initPc, rec, nRec, ends, nEnd, endClicks, svcVars,
                   revoked, created>>

\* the playing element moves on from position zero
AudioProgress ==
    /\ UNCHANGED <<errorTimer, laterScreen, feedbackReport>>
    /\ currentAudioRef.st = "playing" /\ currentAudioRef.pos = 0
    /\ currentAudioRef' = [currentAudioRef EXCEPT !.pos = 1]
    /\ UNCHANGED <<appVars, mounted, stateVars, mirrorVars, sessionIdRef, spaceIsDownRef,
                   mediaRecorderRef, userBlobUrlsRef, currentAudioUrlRef, detached,
                   initPc, rec, nRec, ends, nEnd, endClicks, plays, nPlay, svcVars,
                   revoked, created>>

\* click on the Play button of a rendered bubble: playAudio(m.audioUrl, m.key)
\* up to its await on play()
ClickPlay ==
    /\ UNCHANGED <<errorTimer, laterScreen, feedbackReport>>
    /\ mounted /\ ~loading
    /\ nPlay < MaxPlayClicks
    /\ nPlay' = nPlay + 1
    /\ \E b \in Bubbles(renderedTurns) :
         IF LoadedIs(b.url)
         THEN /\ currentAudioRef' = Restarted(currentAudioRef)
              /\ plays' = [plays EXCEPT ![nPlay + 1] =
                             [st |-> "pending", el |-> currentAudioRef.el, url |-> b.url,
                              key |-> b.key, kind |-> "replay"]]
              /\ UNCHANGED <<currentAudioUrlRef, detached, playingKey>>
         ELSE /\ currentAudioRef' = [el |-> ClickEl(nPlay + 1), url |-> b.url,
                                     st |-> "pending", pos |-> 0]
              /\ detached' = detached \cup Dropped(currentAudioRef)
              /\ currentAudioUrlRef' = b.url
              /\ playingKey' = b.key
              /\ plays' = [plays EXCEPT ![nPlay + 1] =
                             [st |-> "pending", el |-> ClickEl(nPlay + 1), url |-> b.url,
                              key |-> b.key, kind |-> "play"]]
    /\ UNCHANGED <<view, turns, error, loading, fbPending, mounted,
                   processing, personaTyping, sessionId, sessionActive, isRecording,
                   sessionIdRef, spaceIsDownRef, mediaRecorderRef, userBlobUrlsRef,
                   initPc, rec, nRec, ends, nEnd, endClicks, svcVars, revoked, created>>
    /\ UNCHANGED <<mirrorVars, renderedTurns>>

\* the promise of play() awaited by the n-th Play click settles
ManualPlaySettle(n) ==
    /\ UNCHANGED <<errorTimer, laterScreen, feedbackReport>>
    /\ plays[n].st = "pending"
    /\ plays' = [plays EXCEPT ![n].st = "done"]
    /\ \E ok \in BOOLEAN :
         LET mine == currentAudioRef.el = plays[n].el IN
         IF ok /\ mine /\ currentAudioRef.st \in {"pending", "playing"}
         THEN /\ currentAudioRef' = [currentAudioRef EXCEPT !.st = "playing"]
              /\ playingKey' = IF plays[n].kind = "replay"
                               THEN Set(playingKey, plays[n].key)
                               ELSE playingKey
         ELSE /\ ~ok
              /\ currentAudioRef' = IF mine /\ currentAudioRef.st = "pending"
                                    THEN [currentAudioRef EXCEPT !.st = "idle"]
                                    ELSE currentAudioRef
              /\ UNCHANGED playingKey
    /\ UNCHANGED <<appVars, mounted, processing, personaTyping, sessionId, sessionActive,
                   isRecording, mirrorVars, sessionIdRef, spaceIsDownRef, mediaRecorderRef,
                   userBlobUrlsRef, currentAudioUrlRef, detached, initPc, rec, nRec,
                   ends, nEnd, endClicks, nPlay, svcVars, revoked, created>>

\* ----------------------------------------------------------- end interview
\* App.endInterview as called through onEndInterview: the closure holds the
\* turn sequence of the render the End button was clicked in (non-empty)
AppEndInterview ==
    /\ loading' = TRUE
    /\ fbPending' = fbPending + 1

\* click on "End Interview & Get Feedback": handleEndInterview up to the
\* await inside endSessionCleanup
ClickEnd ==
    /\ UNCHANGED <<plays, nPlay, detached, errorTimer, laterScreen, feedbackReport>>
    /\ mounted /\ ~loading
    /\ nRec <= MaxRecTeardown
    /\ Len(renderedTurns) > 0
    /\ endClicks < MaxEndClicks
    /\ endClicks' = endClicks + 1
    /\ IF sessionIdRef = NoId
       THEN /\ AppEndInterview
            /\ UNCHANGED <<ends, nEnd, endCalls>>
       ELSE /\ EndCallFor(sessionIdRef, "click")
            /\ UNCHANGED <<loading, fbPending>>
    /\ UNCHANGED <<view, turns, error, renderedTurns, mounted, stateVars, mirrorVars,
                   sessionIdRef, spaceIsDownRef, mediaRecorderRef, userBlobUrlsRef, audioVars,
                   initPc, rec, nRec, nIssued, startCalls, revoked, created>>

EmptyRequestFallsThrough ==
    /\ error' = ErrNoData
    /\ IF sessionIdRef = NoId
       THEN AppEndInterview /\ UNCHANGED <<ends, nEnd, endCalls>>
       ELSE EndCallFor(sessionIdRef, "click") /\ UNCHANGED <<loading, fbPending>>

\* if (!interviewTurns.length) { setError('No interview data to analyze'); return; }
EmptyRequestRejected ==
    /\ error' = ErrNoData
    /\ UNCHANGED <<ends, nEnd, endCalls, loading, fbPending>>

\* handleEndInterview invoked while the turn sequence of its render is empty.
\* (The End button of the screen is disabled in such a render, so the request
\* comes from a caller of the handler other than a click on that button.)
EndRequestEmpty ==
    /\ mounted /\ ~loading
    /\ Len(renderedTurns) = 0
    /\ EmptyRequestRejected
    /\ UNCHANGED <<view, turns, errorTimer, renderedTurns, mounted, stateVars, mirrorVars,
                   sessionIdRef, spaceIsDownRef, mediaRecorderRef, userBlobUrlsRef, audioVars,
                   detached, initPc, rec, nRec, endClicks, laterScreen, plays, nPlay,
                   nIssued, startCalls, revoked, created, feedbackReport>>

LocalClearedKeepsActive(ok) ==
    /\ sessionId' = Set(sessionId, NoId)
    /\ sessionIdRef' = NoId
    /\ UNCHANGED sessionActive

\* endSessionCleanup after the try/catch around the remote call
LocalClearedOnSuccess(ok) ==
    IF ok
    THEN /\ sessionActive' = Set(sessionActive, FALSE)
         /\ sessionId' = Set(sessionId, NoId)
         /\ sessionIdRef' = NoId
    ELSE UNCHANGED <<sessionActive, sessionId, sessionIdRef>>

\* endSessionCleanup after the try/catch around the remote call; ok tells
\* whether the remote call succeeded (the catch swallows the failure)
LocalCleared(ok) ==
    /\ sessionActive' = Set(sessionActive, FALSE)
    /\ sessionId' = Set(sessionId, NoId)
    /\ sessionIdRef' = NoId

\* the remote end call settles (either way): the rest of endSessionCleanup,
\* then the rest of handleEndInterview when it was the caller
EndResp(k) ==
    /\ UNCHANGED <<plays, nPlay, detached, errorTimer, laterScreen, feedbackReport>>
    /\ ends[k].st = "pending"
    /\ \E ok \in BOOLEAN :
         /\ ends' = [ends EXCEPT ![k].st = IF ok THEN "ended" ELSE "failed"]
         /\ LocalCleared(ok)
    /\ IF ends[k].src = "click"
       THEN AppEndInterview
       ELSE UNCHANGED <<loading, fbPending>>
    /\ UNCHANGED <<view, turns, error, renderedTurns, mounted, processing, personaTyping,
                   isRecording, playingKey, mirrorVars, spaceIsDownRef, mediaRecorderRef,
                   userBlobUrlsRef, audioVars, initPc, rec, nRec, nEnd, endClicks,
                   svcVars, revoked, created>>

\* generateFeedback settles: the rest of App.endInterview
FeedbackResp ==
    /\ UNCHANGED <<plays, nPlay, detached, errorTimer, laterScreen>>
    /\ fbPending > 0
    /\ fbPending' = fbPending - 1
    /\ loading' = FALSE
    /\ \E ok \in BOOLEAN :
         IF ok THEN /\ feedbackReport' = ScoringReport
                    /\ view' = "feedback"
                    /\ UNCHANGED error
         ELSE /\ error' = ErrFeedback
              /\ UNCHANGED <<view, feedbackReport>>
    /\ UNCHANGED <<turns, renderedTurns, mounted, stateVars, mirrorVars, sessionIdRef,
                   spaceIsDownRef, mediaRecorderRef, userBlobUrlsRef, audioVars,
                   initPc, rec, nRec, ends, nEnd, endClicks, svcVars, revoked, created>>

\* click on "Back to Selection": onBack, rendered at once, the screen is
\* torn down
ClickBack ==
    /\ UNCHANGED <<plays, nPlay, detached, errorTimer, laterScreen, feedbackReport>>
    /\ mounted /\ ~loading
    /\ nRec <= MaxRecTeardown
    /\ view' = "selection"
    /\ Teardown
    /\ UNCHANGED <<turns, error, loading, fbPending,
                   processing, personaTyping, sessionId, sessionActive, isRecording,
                   sessionIdRef, mediaRecorderRef, userBlobUrlsRef,
                   initPc, rec, nRec, endClicks, nIssued, startCalls, created>>

\* the error banner goes away: the 5 second timer fires or the user dismisses
ClearError ==
    /\ UNCHANGED <<plays, nPlay, detached, errorTimer, laterScreen, feedbackReport>>
    /\ error # ErrNone
    /\ error' = ErrNone
    /\ UNCHANGED <<view, turns, loading, fbPending, renderedTurns, mounted, stateVars,
                   mirrorVars, sessionIdRef, spaceIsDownRef, mediaRecorderRef,
                   userBlobUrlsRef, audioVars, initPc, rec, nRec, ends, nEnd, endClicks,
                   svcVars, revoked, created>>

\* the interview the turn sequence of TrainingApp belongs to: 1 is the
\* interview of the screen mounted in Init, 2 the one started after Back
CurrentInterview == IF laterScreen = "none" THEN 1 ELSE 2

\* the interview whose screen ran the pipeline that made turn id tid (every
\* pipeline of the model belongs to the first screen: the user issues no
\* recording intent in the later interview)
InterviewOf(tid) == 1

\* setInterviewTurns([]) of startInterview
ResetTurns(ts) == <<>>

\* click on a persona card of the selection view: startInterview, the render
\* that mounts a new InterviewScreen, and its mount effect up to the await of
\* the start-session call
StartInterview ==
    /\ view = "selection" /\ ~mounted /\ ~loading
    /\ laterScreen = "none"
    /\ view' = "interview"
    /\ turns' = ResetTurns(turns)
    /\ renderedTurns' = turns'
    /\ laterScreen' = "starting"
    /\ startCalls' = startCalls + 1
    /\ UNCHANGED <<error, errorTimer, loading, fbPending, feedbackReport, mounted, stateVars, mirrorVars,
                   sessionIdRef, spaceIsDownRef, mediaRecorderRef, userBlobUrlsRef,
                   audioVars, detached, initPc, rec, nRec, ends, nEnd, endClicks,
                   plays, nPlay, nIssued, endCalls, revoked, created>>

\* the start-session call of the later screen's mount effect settles
LaterInitResp ==
    /\ laterScreen = "starting"
    /\ \E ok \in BOOLEAN :
         IF ok
         THEN /\ laterScreen' = "active"
              /\ nIssued' = nIssued + 1
              /\ UNCHANGED error
         ELSE /\ laterScreen' = "failed"
              /\ error' = ErrInit
              /\ UNCHANGED nIssued
    /\ UNCHANGED <<view, turns, errorTimer, loading, fbPending, renderedTurns, mounted,
                   stateVars, mirrorVars, sessionIdRef, spaceIsDownRef, mediaRecorderRef,
                   userBlobUrlsRef, audioVars, detached, initPc, rec, nRec, ends, nEnd,
                   endClicks, plays, nPlay, startCalls, endCalls, revoked, created,
                   feedbackReport>>

TimerForNone(err) == ErrNone

\* if (error) { setTimeout(..., 5000) }: the timer the error effect leaves
\* pending for a message
TimerFor(err) == err

\* the error effect of TrainingApp runs after a render in which error
\* changed: the cleanup clears the timer of the previous message and a new
\* timer is armed for a non-empty message
ErrorEffect ==
    /\ errorTimer # TimerFor(error)
    /\ errorTimer' = TimerFor(error)
    /\ UNCHANGED <<view, turns, error, loading, fbPending, renderedTurns, mounted, stateVars,
                   mirrorVars, sessionIdRef, spaceIsDownRef, mediaRecorderRef,
                   userBlobUrlsRef, audioVars, detached, initPc, rec, nRec, ends, nEnd,
                   endClicks, plays, nPlay, svcVars, revoked, created, laterScreen,
                   feedbackReport>>

\* the pending timer expires: setError('')
TimerFires ==
    /\ errorTimer # ErrNone
    /\ errorTimer' = ErrNone
    /\ error' = ErrNone
    /\ UNCHANGED <<view, turns, loading, fbPending, renderedTurns, mounted, stateVars,
                   mirrorVars, sessionIdRef, spaceIsDownRef, mediaRecorderRef,
                   userBlobUrlsRef, audioVars, detached, initPc, rec, nRec, ends, nEnd,
                   endClicks, plays, nPlay, svcVars, revoked, created, laterScreen,
                   feedbackReport>>

\* click on the dismiss button of the error banner
Dismiss ==
    /\ error # ErrNone
    /\ error' = ErrNone
    /\ UNCHANGED <<view, turns, errorTimer, loading, fbPending, renderedTurns, mounted,
                   stateVars, mirrorVars, sessionIdRef, spaceIsDownRef, mediaRecorderRef,
                   userBlobUrlsRef, audioVars, detached, initPc, rec, nRec, ends, nEnd,
                   endClicks, plays, nPlay, svcVars, revoked, created, laterScreen,
                   feedbackReport>>

\* ------------------------------------------------------------ specification
Next ==
    \/ Render
    \/ KeyDown
    \/ KeyUp
    \/ ClickToggle
    \/ ClickEnd
    \/ ClickBack
    \/ ClearError
    \/ InitResp
    \/ AudioEnded
    \/ FeedbackResp
    \/ \E i \in RecIds : GetUserMediaResp(i)
    \/ \E i \in RecIds : RecorderStop(i)
    \/ \E i \in RecIds : StatusResp(i)
    \/ \E i \in RecIds : StartResp(i)
    \/ \E i \in RecIds : UploadResp(i)
    \/ \E i \in RecIds : ReplyResp(i)
    \/ \E i \in RecIds : TTSResp(i)
    \/ \E i \in RecIds : PlaySettle(i)
    \/ \E k \in EndIds : EndResp(k)

Spec == Init /\ [][Next]_vars

\* the step of intent i's recorder and pipeline that is due next (at most one
\* is enabled at a time)
PipeStep(i) ==
    \/ RecorderStop(i)
    \/ StatusResp(i)
    \/ StartResp(i)
    \/ UploadResp(i)
    \/ ReplyResp(i)
    \/ TTSResp(i)
    \/ PlaySettle(i)

\* Every promise a pipeline awaits settles (the network answers or fails,
\* play() resolves or rejects) and the recorder delivers its stop event.
\* Nothing is assumed of the user or of the other activities.
Fairness == \A i \in RecIds : WF_vars(PipeStep(i))

\* The liveness specification: the user drives the screen with the buttons
\* only (the push-to-talk key and the error banner change neither a recorder
\* nor a pipeline step).
NextButtons ==
    \/ Render
    \/ ClickToggle
    \/ ClickEnd
    \/ ClickBack
    \/ InitResp
    \/ AudioEnded
    \/ FeedbackResp
    \/ \E i \in RecIds : GetUserMediaResp(i)
    \/ \E i \in RecIds : PipeStep(i)
    \/ \E k \in EndIds : EndResp(k)

FairSpec == Init /\ [][NextButtons]_vars /\ Fairness

\* The error-banner specification: the timer of the error effect is explicit
\* (in the other specifications ClearError stands for expiry and dismissal).
\* React runs the effect of a committed render and a pending timer expires;
\* nothing is assumed of the user or of the network.
NextError ==
    \/ Render
    \/ ClickToggle
    \/ ClickEnd
    \/ InitResp
    \/ FeedbackResp
    \/ ErrorEffect
    \/ TimerFires
    \/ Dismiss
    \/ \E i \in RecIds : GetUserMediaResp(i)
    \/ \E i \in RecIds : PipeStep(i)
    \/ \E k \in EndIds : EndResp(k)

ErrorSpec == Init /\ [][NextError]_vars /\ WF_vars(ErrorEffect) /\ WF_vars(TimerFires)

\* The re-entry specification: the user leaves the interview with Back and
\* starts another one while work of the first screen may still be pending.
NextReentry ==
    \/ Render
    \/ ClickToggle
    \/ ClickBack
    \/ StartInterview
    \/ LaterInitResp
    \/ InitResp
    \/ AudioEnded
    \/ \E i \in RecIds : GetUserMediaResp(i)
    \/ \E i \in RecIds : PipeStep(i)
    \/ \E k \in EndIds : EndResp(k)

ReentrySpec == Init /\ [][NextReentry]_vars

\* The end-request specification: besides the clicks, the end-interview
\* request may reach the handler while the turn sequence is empty.
NextEndRequest ==
    \/ Render
    \/ ClickToggle
    \/ ClickEnd
    \/ ClickBack
    \/ EndRequestEmpty
    \/ ClearError
    \/ InitResp
    \/ AudioEnded
    \/ FeedbackResp
    \/ \E i \in RecIds : GetUserMediaResp(i)
    \/ \E i \in RecIds : PipeStep(i)
    \/ \E k \in EndIds : EndResp(k)

EndRequestSpec == Init /\ [][NextEndRequest]_vars

\* The push-to-talk specification: the user records with the key only.
NextKeys ==
    \/ Render
    \/ KeyDown
    \/ KeyUp
    \/ ClickEnd
    \/ ClickBack
    \/ ClearError
    \/ InitResp
    \/ AudioEnded
    \/ FeedbackResp
    \/ \E i \in RecIds : GetUserMediaResp(i)
    \/ \E i \in RecIds : PipeStep(i)
    \/ \E k \in EndIds : EndResp(k)

KeySpec == Init /\ [][NextKeys]_vars

\* The playback specification: the user records with the button and plays
\* transcript bubbles; the screen stays mounted.
NextPlay ==
    \/ Render
    \/ ClickToggle
    \/ ClickPlay
    \/ InitResp
    \/ AudioProgress
    \/ AudioEnded
    \/ \E i \in RecIds : GetUserMediaResp(i)
    \/ \E i \in RecIds : PipeStep(i)
    \/ \E n \in PlayIds : ManualPlaySettle(n)

PlaySpec == Init /\ [][NextPlay]_vars

\* ---------------------------------------------------------------- typing
TypeOK ==
    /\ view \in {"interview", "selection", "feedback"}
    /\ Len(turns) <= MaxRec
    /\ nRec \in 0..MaxRec
    /\ nEnd \in 0..(MaxEndClicks + 1)
    /\ nIssued \in 0..(MaxRec + 1)
    /\ mounted => sessionIdRef = sessionId

\* ------------------------------------------------------ derived predicates
\* processAudio of intent i has started and not yet returned
InFlight(i) == rec[i].pc \in {"check", "start", "upload", "reply", "tts", "play", "replay"}

\* processAudio of intent i has passed turn creation (stage 3)
ReachedCreation(i) ==
    \/ rec[i].pc \in {"reply", "tts", "play", "replay"}
    \/ rec[i].outcome \in {"reply_fail", "tts_fail", "committed"}

\* positions of the turns created by pipeline i
TurnsOf(ts, i) == { k \in 1..Len(ts) : ts[k].id = MakeTurnId(i) }

\* pipeline outcomes that abort before turn creation
PreAborts == {"no_session", "upload_fail", "no_speech"}

\* no asynchronous work of the screen is pending
Settled ==
    /\ initPc = "done"
    /\ fbPending = 0
    /\ \A i \in RecIds : rec[i].st \notin {"acquiring", "stopping"} /\ ~InFlight(i)
    /\ \A k \in EndIds : ends[k].st # "pending"

\* the Audio elements that are producing sound: the held element while it
\* plays, and every element dropped from the ref without having been paused
Sounding ==
    detached \cup (IF currentAudioRef.st = "playing" THEN {currentAudioRef.el} ELSE {})

\* a step that carries out a start-recording or a stop-recording transition
\* (startRecording or stopRecording was called)
RecordingToggled ==
    \/ nRec' # nRec
    \/ \E i \in RecIds : rec[i].st = "recording" /\ rec'[i].st = "stopping"
    \/ isRecording /\ ~isRecording'

\* the message each aborting outcome of processAudio leaves in the error state
AbortMessage(outcome) ==
    IF outcome = "no_session" THEN ErrNoSession
    ELSE IF outcome = "no_speech" THEN ErrNoSpeech
    ELSE ErrProcess

\* pipeline i carries out the stage-6 update in this step
Patches(i) ==
    /\ rec[i].pc \in {"reply", "tts"}
    /\ \/ rec'[i].pc \in {"play", "replay"}
       \/ rec'[i].pc = "done" /\ rec'[i].outcome = "committed"

\* ------------------------------------------------------------------ claims

\* C1: when the reply succeeded with a non-empty text and the synthesis call
\* fails, the turn of that utterance holds the reply text as personaText and
\* a null personaAudioRef.
SynthesisFailureKeepsReply ==
    [][ \A i \in RecIds :
          (rec[i].pc = "tts" /\ rec'[i].outcome = "tts_fail")
          => /\ TurnsOf(turns', i) # {}
             /\ \A k \in TurnsOf(turns', i) :
                  /\ turns'[k].persona_response = rec[i].reply
                  /\ turns'[k].persona_audio_url = NoUrl ]_vars

\* C2: at any time at most one turn pipeline (processAudio) is in flight.
AtMostOnePipeline == Cardinality({ i \in RecIds : InFlight(i) }) <= 1

\* C3: the turn sequence holds exactly one turn per pipeline that reached turn
\* creation, in creation order, and changes only by appending at the end: no
\* turn is removed or moved.
TurnsInCreationOrder ==
    /\ [](/\ Len(turns) = Cardinality({ i \in RecIds : ReachedCreation(i) })
          /\ Len(turns) = Len(created)
          /\ \A k \in 1..Len(turns) : turns[k].id = created[k])
    /\ [][ /\ Len(turns') >= Len(turns)
           /\ Len(turns') <= Len(turns) + 1
           /\ \A k \in 1..Len(turns) : turns'[k].id = turns[k].id ]_vars

TwoTurnsOutOfIntentOrder ==
    /\ Len(turns) = 2
    /\ turns[1].id = MakeTurnId(2)
    /\ turns[2].id = MakeTurnId(1)

\* C4: when the persona-reply call fails after a transcription T, exactly one
\* turn exists for the utterance, with studentText = T, empty personaText and
\* null personaAudioRef; the pipeline ends normally and the turn's persona
\* fields stay empty ever after.
ReplyFailureLeavesPartialTurn ==
    /\ [](\A i \in RecIds :
            rec[i].outcome = "reply_fail"
            => /\ rec[i].pc = "done"
               /\ Cardinality(TurnsOf(turns, i)) = 1
               /\ \A k \in TurnsOf(turns, i) :
                    /\ turns[k].persona_response = <<>>
                    /\ turns[k].persona_audio_url = NoUrl)
    /\ [][ \A i \in RecIds :
             (rec[i].pc = "reply" /\ rec'[i].outcome = "reply_fail")
             => \A k \in TurnsOf(turns', i) :
                  /\ rec[i].text # <<>>
                  /\ turns'[k].student_question = rec[i].text ]_vars

PartialTurnAfterReplyFailure ==
    \E i \in RecIds :
      /\ rec[i].outcome = "reply_fail"
      /\ \E k \in TurnsOf(turns, i) : turns[k].student_question = <<"a">>

\* C5: a pipeline that aborts before turn creation (no session id, failed
\* transcription, empty or whitespace-only transcript) leaves the turn sequence
\* unchanged, creates no turn, and sets the processing flag of the mounted
\* screen to false.
EarlyAbortCreatesNoTurn ==
    /\ [](\A i \in RecIds : rec[i].outcome \in PreAborts => TurnsOf(turns, i) = {})
    /\ [][ \A i \in RecIds :
             (rec[i].outcome = "none" /\ rec'[i].outcome \in PreAborts)
             => /\ turns' = turns
                /\ mounted => processing' = FALSE ]_vars

EarlyAbortHappened ==
    /\ mounted /\ ~processing
    /\ \E i \in RecIds : rec[i].outcome = "upload_fail"
    /\ \E i \in RecIds : rec[i].outcome = "no_speech"

\* C6: whenever ensureSession finds the held session reported active, it
\* invokes no start-session call and returns the id that was held.
ActiveSessionIsReused ==
    [][ \A i \in RecIds :
          (rec[i].pc = "check" /\ rec'[i].status = "active")
          => /\ startCalls' = startCalls
             /\ nIssued' = nIssued
             /\ rec'[i].pc = "upload"
             /\ rec'[i].id = rec[i].id
             /\ sessionIdRef' = sessionIdRef ]_vars

TwoChecksOneSession ==
    /\ startCalls = 1
    /\ nIssued = 1
    /\ \E i, j \in RecIds :
         /\ i # j
         /\ ReachedCreation(j)
         /\ rec[i].pc = "upload" /\ rec[i].status = "active" /\ rec[i].id = 1

\* C7: when the status check throws or reports the session inactive,
\* ensureSession issues a start-session call without setting an error or
\* ending the turn; the id that call returns becomes the held id and the id
\* the pipeline goes on with.
StaleSessionIsReplaced ==
    [][ \A i \in RecIds :
          /\ (rec[i].pc = "check" /\ rec'[i].status \in {"inactive", "throw"})
             => /\ startCalls' = startCalls + 1
                /\ rec'[i].pc = "start"
                /\ error' = error
                /\ processing' = processing
          /\ (rec[i].pc = "start" /\ rec[i].status \in {"inactive", "throw"}
                /\ rec'[i].pc # "start" /\ nIssued' # nIssued)
             => /\ rec'[i].id = nIssued'
                /\ rec'[i].id # rec[i].id
                /\ sessionIdRef' = nIssued'
                /\ rec'[i].pc = "upload"
                /\ error' = error ]_vars

RestartedAfterFailedCheck ==
    \E i \in RecIds :
      /\ rec[i].pc = "upload" /\ rec[i].status = "throw"
      /\ rec[i].id = 2 /\ sessionIdRef = 2
      /\ error = ErrNone

\* C8: when the remote end call of endSessionCleanup settles, with success or
\* with failure, the held session id is cleared and the mounted screen's
\* session is marked inactive with a null id; the error message is untouched.
EndAlwaysClearsLocalSession ==
    [][ \A k \in EndIds :
          (ends[k].st = "pending" /\ ends'[k].st \in {"ended", "failed"})
          => /\ sessionIdRef' = NoId
             /\ mounted => (sessionId' = NoId /\ ~sessionActive')
             /\ error' = error ]_vars

ClearedAfterFailedEnd ==
    /\ mounted /\ sessionIdRef = NoId /\ sessionId = NoId /\ ~sessionActive
    /\ error = ErrNone
    /\ \E k \in EndIds : ends[k].st = "failed" /\ ends[k].id # NoId

\* C9: once the screen is torn down and all pending work has settled, the
\* end-session operation has been invoked for every session id that
\* start-session returned.
EverySessionEnded ==
    (~mounted /\ Settled) => \A s \in 1..nIssued : endCalls[s] >= 1

EveryObjectUrlRevoked ==
    (~mounted /\ Settled)
    => \A k \in 1..Len(userBlobUrlsRef) : userBlobUrlsRef[k] \in revoked

\* C12: playAudio on the url of the element the refs hold restarts that
\* element from position zero and creates no element; playAudio on another
\* url stops the held element, puts a new element for the url in its place,
\* starts it and sets the now-playing key to the key of the call.  Both for a
\* Play click and for the autoplay of a pipeline.
PlayRestartsOrReplaces ==
    [][ /\ nPlay' = nPlay + 1
           => LET c == plays'[nPlay'] IN
              IF currentAudioRef.st # "none" /\ currentAudioUrlRef = c.url
              THEN /\ currentAudioRef'.el = currentAudioRef.el
                   /\ currentAudioRef'.url = c.url
                   /\ currentAudioRef'.pos = 0
                   /\ currentAudioRef'.st \in {"pending", "playing"}
                   /\ detached' = detached
              ELSE /\ currentAudioRef' = [el |-> ClickEl(nPlay'), url |-> c.url,
                                          st |-> "pending", pos |-> 0]
                   /\ currentAudioRef.el \notin detached'
                   /\ currentAudioUrlRef' = c.url
                   /\ playingKey' = c.key
        /\ \A i \in RecIds :
             (rec[i].pc = "tts" /\ rec'[i].pc \in {"play", "replay"})
             => IF currentAudioRef.st # "none" /\ currentAudioUrlRef = rec'[i].url
                THEN /\ rec'[i].pc = "replay"
                     /\ currentAudioRef'.el = currentAudioRef.el
                     /\ currentAudioRef'.pos = 0
                     /\ currentAudioRef'.st \in {"pending", "playing"}
                     /\ detached' = detached
                ELSE /\ rec'[i].pc = "play"
                     /\ currentAudioRef' = [el |-> i, url |-> rec'[i].url,
                                            st |-> "pending", pos |-> 0]
                     /\ currentAudioRef.el \notin detached'
                     /\ currentAudioUrlRef' = rec'[i].url
                     /\ mounted => playingKey' = <<"p", i>> ]_vars

ClickRestartedAutoplay ==
    /\ plays[1].st = "done" /\ plays[1].kind = "replay"
    /\ currentAudioRef.el \in RecIds
    /\ currentAudioRef.st = "playing" /\ currentAudioRef.pos = 0
    /\ playingKey = plays[1].key

\* C13: after natural completion or stopCurrentAudio the element stays held,
\* so a following playAudio for the url of the held element restarts that
\* element instead of creating a new one.
PlayOfHeldUrlReusesElement ==
    [][ nPlay' = nPlay + 1
        => ( (currentAudioRef.st # "none" /\ currentAudioRef.url = plays'[nPlay'].url)
             => currentAudioRef'.el = currentAudioRef.el ) ]_vars

\* C14: in every reachable state at most one Audio element is playing,
\* whatever the interleaving of Play clicks, pipeline autoplay, playback
\* completion and recording start.
AtMostOneAudioPlaying == Cardinality(Sounding) <= 1

ClickReplacedPendingAutoplay ==
    /\ Sounding = {ClickEl(1)}
    /\ \E i \in RecIds : rec[i].pc = "play" /\ rec[i].el = i

\* C15: while the push-to-talk key is held, no keydown causes a transition:
\* from the keydown that set the key down until the next keyup no further
\* start-recording or stop-recording transition happens.
HeldKeyTogglesOnce == [][ spaceIsDownRef => ~RecordingToggled ]_vars

KeyHeldWhileRecording ==
    /\ spaceIsDownRef /\ isRecordingRef /\ ~processingRef /\ sessionActiveRef
    /\ nRec = 1 /\ rec[1].st = "recording"

\* C16: a push-to-talk keydown that arrives while a turn is processing or
\* while no session is active (or whose target is editable) causes neither a
\* start-recording nor a stop-recording transition.  In KeySpec every
\* transition comes from a keydown.
KeyDownGatedByState ==
    [][ (processing \/ ~sessionActive) => ~RecordingToggled ]_vars

\* C17: the recording state never becomes Recording while the processing
\* flag is true or while no session is active, also when getUserMedia
\* resolves after a pipeline has begun or after the session was ended.
RecordingStartsOnlyWhenIdle ==
    [][ (~isRecording /\ isRecording') => (~processing /\ sessionActive) ]_vars

\* C18: when getUserMedia fails for a start-recording intent, the error
\* message is set, the recording state is left as it was (Idle; it never
\* becomes Recording for that intent), no recorder is installed and no
\* pipeline is ever started for the intent.
MicFailureStaysIdle ==
    /\ [][ \A i \in RecIds :
             (rec[i].st = "acquiring" /\ rec'[i].st = "failed")
             => /\ error' = "Failed to access microphone"
                /\ isRecording' = isRecording
                /\ mediaRecorderRef' = mediaRecorderRef
                /\ processing' = processing ]_vars
    /\ [](\A i \in RecIds :
            rec[i].st = "failed"
            => /\ rec[i].pc = "idle" /\ rec[i].stream = "none"
               /\ mediaRecorderRef # i)

MicDeniedLeftIdle ==
    /\ nRec = 1 /\ rec[1].st = "failed"
    /\ error = ErrMic
    /\ mounted /\ ~isRecording /\ ~processing

\* C19: in the run where start-session returns the first id, the one
\* recording is transcribed to a non-empty text, the reply is a non-empty text
\* with a server turn number, and the synthesis returns inline audio, stage
\* 5-7 leaves exactly one turn with that student text, that reply text, that
\* turn number and a non-null persona audio url, and starts the playback
\* under the key p-<turn id>; when play() resolves the pipeline ends with
\* processing false, the audio playing and the now-playing key still
\* p-<turn id>.
HappyPathFinalState ==
    [][ /\ ( /\ nRec = 1 /\ nIssued = 1 /\ mounted
             /\ rec[1].pc = "tts" /\ rec[1].id = 1
             /\ rec[1].text = <<"a">> /\ rec[1].reply = <<"c">> /\ rec[1].tn = 5
             /\ rec'[1].pc = "play" /\ rec'[1].url = <<"blob-p", 1>> )
           => /\ turns' = << [ id |-> 1, student_question |-> <<"a">>,
                               student_audio_url |-> <<"blob-u", 1>>,
                               persona_response |-> <<"c">>,
                               persona_audio_url |-> <<"blob-p", 1>>,
                               turn_number |-> 5 ] >>
              /\ playingKey' = <<"p", 1>>
              /\ currentAudioRef'.url = <<"blob-p", 1>>
        /\ ( /\ nRec = 1 /\ mounted
             /\ rec[1].pc = "play" /\ rec'[1].pc = "done"
             /\ currentAudioRef'.st = "playing" )
           => /\ turns' = turns /\ Len(turns') = 1
              /\ ~processing' /\ ~personaTyping'
              /\ currentAudioRef'.url = turns'[1].persona_audio_url
              /\ playingKey' = <<"p", turns'[1].id>> ]_vars

HappyPathCompleted ==
    /\ nRec = 1 /\ nIssued = 1 /\ mounted /\ rec[1].pc = "done"
    /\ Len(turns) = 1
    /\ turns[1].student_question = <<"a">> /\ turns[1].persona_response = <<"c">>
    /\ turns[1].turn_number = 5 /\ turns[1].persona_audio_url = PersonaBlobUrl(1)
    /\ ~processing
    /\ currentAudioRef.st = "playing" /\ playingKey = PersonaKey(turns[1].id)

\* C20: whenever a pipeline ends, by completing or by a failing stage, the
\* processing flag and the composing indicator of the mounted screen are
\* false and control returns to onstop (the stream is released: nothing
\* escaped processAudio); an aborting failure leaves its message in the
\* error state, a completing run leaves the error state alone, and a
\* pipeline that has ended takes no further step.
PipelineEndsCleanly ==
    /\ [][ \A i \in RecIds :
             (rec[i].pc # "done" /\ rec'[i].pc = "done")
             => /\ mounted => (~processing' /\ ~personaTyping')
                /\ rec'[i].stream = "released"
                /\ rec'[i].outcome \in
                     {"no_session", "upload_fail", "no_speech", "reply_fail",
                      "tts_fail", "committed"}
                /\ IF rec'[i].outcome = "committed"
                   THEN error' = error
                   ELSE error' # "" /\ error' = AbortMessage(rec'[i].outcome) ]_vars
    /\ [][ \A i \in RecIds : rec[i].pc = "done" => rec'[i] = rec[i] ]_vars

FailedPipelineEnded ==
    /\ mounted /\ ~processing /\ ~personaTyping
    /\ error = ErrProcess
    /\ \E i \in RecIds : rec[i].pc = "done" /\ rec[i].outcome = "tts_fail"

\* C21: whenever the error message is non-empty it is eventually cleared, by
\* the expiry of the timer or by dismissal: no message stays displayed forever.
ErrorEventuallyCleared == (error # "") ~> (error = "")

ErrorClearedAfterTwoFailures ==
    /\ error = ErrNone /\ errorTimer = ErrNone
    /\ \E i \in RecIds : rec[i].outcome = "upload_fail"
    /\ \E i \in RecIds : rec[i].st = "failed"

\* C22: when a start-session call fails, the session state is left as it
\* was (after the call of the mount effect: null id, inactive), an error
\* message is set, and no start-session call follows by itself: after a
\* failed mount call the screen never calls start-session again.
FailedStartLeavesNoSession ==
    /\ [][ (initPc = "pending" /\ initPc' = "done" /\ nIssued' = nIssued)
           => /\ sessionIdRef' = NoId /\ sessionId' = NoId /\ ~sessionActive'
              /\ error' = "Failed to initialize interview session"
              /\ startCalls' = startCalls ]_vars
    /\ [][ \A i \in RecIds :
             (rec[i].pc = "start" /\ rec'[i].outcome = "no_session")
             => /\ sessionIdRef' = sessionIdRef /\ sessionId' = sessionId
                /\ sessionActive' = sessionActive
                /\ error' # ""
                /\ startCalls' = startCalls /\ nIssued' = nIssued ]_vars
    /\ []( (initPc = "done" /\ nIssued = 0)
           => (startCalls = 1 /\ sessionIdRef = NoId /\ ~sessionActive /\ nRec = 0) )

MountStartFailed ==
    /\ mounted /\ initPc = "done" /\ nIssued = 0
    /\ error = ErrInit /\ startCalls = 1 /\ ~sessionActiveRef

\* C23: the stage-6 update changes only the turn whose id is the id created
\* in stage 3 of the same pipeline: that turn gets the reply text, the
\* resolved audio url and the server turn number (its 1-based position when
\* the server reports none); its id and student fields, and every other
\* turn, are unchanged.
PatchTouchesOwnTurnOnly ==
    [][ \A i \in RecIds :
          Patches(i)
          => /\ Len(turns') = Len(turns)
             /\ \A k \in 1..Len(turns) :
                  IF turns[k].id # rec[i].turnId
                  THEN turns'[k] = turns[k]
                  ELSE /\ turns'[k].id = turns[k].id
                       /\ turns'[k].student_question = turns[k].student_question
                       /\ turns'[k].student_audio_url = turns[k].student_audio_url
                       /\ turns'[k].turn_number \in {5, k}
                       /\ IF rec[i].pc = "tts"
                          THEN /\ turns'[k].persona_response = rec[i].reply
                               /\ turns'[k].turn_number =
                                    (IF rec[i].tn # 0 THEN rec[i].tn ELSE k)
                               /\ turns'[k].persona_audio_url =
                                    (IF rec'[i].pc = "done" THEN <<>> ELSE rec'[i].url)
                          ELSE /\ turns'[k].persona_response = <<>>
                               /\ turns'[k].persona_audio_url = <<>> ]_vars

EarlierTurnPatchedFirst ==
    /\ Len(turns) = 2
    /\ turns[1].persona_response = <<"c">> /\ turns[1].turn_number = 1
    /\ turns[2].persona_response = <<>>
    /\ rec[turns[2].id].pc = "tts"

\* C24: the composing indicator of the mounted screen is true only while a
\* pipeline is in the reply or the synthesis stage: it is false before the
\* turn is appended, and false once the turn has been patched and during
\* the autoplay.
TypingOnlyInReplyOrSynthesis ==
    (mounted /\ personaTyping) => \E i \in RecIds : rec[i].pc \in {"reply", "tts"}

\* C25: for an empty or whitespace-only reply no synthesis request is issued
\* (the pipeline goes from the reply stage straight to its end), and the
\* empty result is reported through the error message, as the empty
\* transcript is.
EmptyReplyIsReported ==
    [][ \A i \in RecIds :
          (rec[i].pc = "reply" /\ rec'[i].pc = "done" /\ rec'[i].outcome = "committed")
          => error' # "" ]_vars

\* C26: no audio plays while the recording state is Recording: entering
\* Recording stops the playing audio and no playback, by a Play click or by
\* autoplay, begins until the recording has stopped.
SilentWhileRecording ==
    (isRecording /\ \E i \in RecIds : rec[i].st = "recording") => Sounding = {}

\* C27: in every state of the mounted screen, a session marked active comes
\* with a non-null session id, in the state and in the ref.
ActiveSessionHasId ==
    (mounted /\ sessionActive) => (sessionId # 0 /\ sessionIdRef # 0)

ActiveAfterRestart ==
    /\ mounted /\ sessionActive
    /\ nIssued = 2 /\ sessionId = 2 /\ sessionIdRef = 2

\* C28: when ensureSession returns null after the held session was found
\* inactive or unreachable and the restart failed, the session is no longer
\* marked active and the stale id is no longer held.
FailedRestartDropsSession ==
    [][ \A i \in RecIds :
          (rec[i].pc = "start" /\ rec[i].status \in {"inactive", "throw"}
             /\ rec'[i].outcome = "no_session")
          => /\ sessionIdRef' = 0
             /\ mounted => (~sessionActive' /\ sessionId' = 0) ]_vars

\* C29: every turn of the turn sequence was created by a pipeline of the
\* screen of the current interview: a pipeline of a screen that was left
\* neither appends nor patches a turn of a later-started interview.
TurnsBelongToCurrentInterview ==
    \A k \in 1..Len(turns) : InterviewOf(turns[k].id) = CurrentInterview

\* C30: after the screen has been torn down no audio plays: a pipeline that
\* was in flight at the teardown does not autoplay the persona audio
\* afterwards.
SilentAfterTeardown == ~mounted => Sounding = {}

\* C31: the now-playing key of the mounted screen is non-empty only while the
\* held element is playing or its play() is being started: after a rejected
\* or blocked play(), after stopCurrentAudio and after the natural end of the
\* playback the key is empty.
PlayingKeyOnlyWhilePlaying ==
    (mounted /\ playingKey # NoKey) => currentAudioRef.st \in {"pending", "playing"}

\* C32: the end-session operation is invoked at most once for each session
\* id, whatever the interleaving of End-Interview clicks, the teardown of the
\* screen and the pending end-session response.
EndSessionOncePerId == \A s \in SessIds : endCalls[s] <= 1

\* C33: at most one microphone stream is held (acquired and not yet
\* released) at any time, and at most one recorder is recording: a
\* start-recording intent issued while an earlier acquisition is pending or
\* an earlier recorder is active never leaves two of them open.
AtMostOneStreamHeld ==
    /\ Cardinality({ i \in RecIds : rec[i].stream = "held" }) <= 1
    /\ Cardinality({ i \in RecIds : rec[i].st = "recording" }) <= 1

\* C34: an end-interview request made while the turn sequence is empty sets
\* the error message and changes nothing else: the session id stays held and
\* the session active, no end-session call and no scoring call is issued,
\* the loading flag and the turn sequence are untouched, and the view stays
\* on the interview screen.
EmptyEndRequestOnlySetsError ==
    [][ (error' = "No interview data to analyze" /\ error' # error)
        => /\ turns' = turns /\ renderedTurns' = renderedTurns
           /\ view = "interview" /\ view' = view
           /\ sessionIdRef' = sessionIdRef /\ sessionId' = sessionId
           /\ sessionActive' = sessionActive
           /\ endCalls' = endCalls /\ ends' = ends /\ nEnd' = nEnd
           /\ fbPending' = fbPending /\ loading' = loading
           /\ startCalls' = startCalls /\ nIssued' = nIssued
           /\ rec' = rec /\ mounted' = mounted
           /\ processing' = processing /\ isRecording' = isRecording
           /\ playingKey' = playingKey /\ currentAudioRef' = currentAudioRef ]_vars

EmptyEndRequestRejected ==
    /\ error = ErrNoData
    /\ mounted /\ view = "interview" /\ Len(turns) = 0
    /\ sessionActive /\ sessionIdRef = 1 /\ endCalls[1] = 0
    /\ fbPending = 0 /\ ~loading

\* C35: the view changes to feedback only in the step in which a scoring
\* call, made for a non-empty turn sequence, succeeds and its report is
\* stored; when a scoring call fails, the view stays on interview, the error
\* message is set and the loading flag returns to false.
FeedbackViewOnlyAfterScoring ==
    /\ [][ (view # "feedback" /\ view' = "feedback")
           => /\ fbPending > 0 /\ fbPending' = fbPending - 1
              /\ feedbackReport' = "report"
              /\ Len(turns) > 0 ]_vars
    /\ [][ (fbPending' < fbPending /\ feedbackReport' = "null")
           => /\ view' = "interview"
              /\ error' = "Failed to generate feedback report"
              /\ ~loading' ]_vars

====
